---- MODULE Spec2Model ----
(***************************************************************************)
(* A model of src/src/App.js: the React component that captures tab audio  *)
(* with a MediaRecorder, sends the recording to a transcription service,   *)
(* and lets the user refine the transcript and ask for an answer.          *)
(*                                                                         *)
(* React state is modelled by one variable per useState cell, refs by one  *)
(* variable per useRef cell.  JavaScript runs each handler to completion,  *)
(* so every action is the code between two suspension points (an await, a  *)
(* platform event).  A handler is a closure of the render it was created   *)
(* in: what it reads of the state is the state at the moment it is         *)
(* invoked, and what its own callbacks read later is that same snapshot.   *)
(*                                                                         *)
(* Text is a sequence of pieces (strings); '' is the empty sequence.       *)
(***************************************************************************)
EXTENDS Integers, Sequences, FiniteSets, Bags, TLC

(***************************************************************************)
(* Bounds of the model.                                                    *)
(***************************************************************************)
MaxRecorders == 3      \* MediaRecorder objects ever created through the page
MaxDirect    == 2      \* MediaRecorder objects ever created by direct invocation
MaxLive      == 2      \* recorders (and suspended starts) alive together
MaxChunks    == 1      \* non-empty timeslice chunks a recorder delivers before it stops
MaxInFlight  == 1      \* user-triggered requests (refine, answer) in flight together

VARIABLES
    isRecording,       \* useState(false)                       line 6
    audioChunks,       \* useState([])                          line 7
    transcribedText,   \* useState('')                          line 8
    refinedQuestion,   \* useState('')                          line 9
    aiAnswer,          \* useState('')                          line 10
    statusMessage,     \* useState('Click "Start Recording"...') line 11
    isLoading,         \* useState(false)                       line 12
    isRefining,        \* useState(false)                       line 13
    mediaRecorderRef,  \* useRef(null): 0, or an index of recorders
    audioStreamRef,    \* useRef(null): 0, or an index of streams
    streams,           \* the MediaStreams the platform has handed out
    recorders,         \* the MediaRecorders created so far
    acquiring,         \* getDisplayMedia() promises not yet settled
    sttInFlight,       \* POST /api/stt requests not yet answered
    openaiInFlight,    \* POST /api/openai requests not yet answered
    geminiInFlight,    \* generateContent requests not yet answered
    mounted,           \* the cleanup of the mount effect (lines 54-59) has not run
    lastOp             \* history: the operation that produced this state

state == <<isRecording, audioChunks, transcribedText, refinedQuestion, aiAnswer,
           statusMessage, isLoading, isRefining>>
refs  == <<mediaRecorderRef, audioStreamRef>>
platform == <<streams, recorders, acquiring>>
network == <<sttInFlight, openaiInFlight, geminiInFlight>>
vars  == <<state, refs, platform, network, mounted, lastOp>>

(***************************************************************************)
(* JavaScript values and strings.                                          *)
(***************************************************************************)
Empty == <<>>
Undefined == <<"undefined">>

\* A string is truthy unless it is '' (undefined is falsy).
Truthy(v) == v # Empty /\ v # Undefined

\* a || b
Or(a, b) == IF Truthy(a) THEN a ELSE b

\* text.includes(piece)
Includes(text, piece) == \E i \in 1..Len(text) : text[i] = piece

\* text contains the pieces of part, contiguously and in order
Contains(text, part) ==
    \E i \in 0..(Len(text) - Len(part)) :
        \A j \in 1..Len(part) : text[i + j] = part[j]

BACKEND_URL == "https://voice-ai-backend-euw9.onrender.com"

(***************************************************************************)
(* Status messages.                                                        *)
(***************************************************************************)
MsgInitial == <<"Click \"Start Recording\" to begin capturing tab audio.">>
MsgCaptureReady == <<"Tab/Window audio capture ready. Select a tab/window to share its its audio.">>
MsgPolicyBlocked == <<"Tab/Window audio capture is blocked by browser permissions policy. Try running this app in a standalone browser tab.">>
MsgDenied == <<"Tab/Window audio capture denied. Please allow access in browser settings (click lock icon in address bar).">>
MsgNotFound == <<"No suitable audio source found. Ensure a tab/window is available for capture.">>
MsgAcquireFailed == <<"Failed to get audio stream. See browser console (F12) for details.">>
MsgReacquiring == <<"Audio stream not available. Attempting to re-acquire...">>
MsgReacquireFailed == <<"Cannot start recording: Failed to acquire audio stream. Check browser console.">>
MsgRecording == <<"Recording tab/window audio...">>
MsgErrorStarting == <<"Error starting recording. Ensure a tab is selected for audio sharing.">>
MsgProcessing == <<"Processing tab audio...">>
MsgNoAudio == <<"No audio recorded from the tab. Please ensure audio is playing and you record for a sufficient duration.">>
MsgSending == <<"Sending tab audio for transcription...">>
MsgTranscribed == <<"Transcription received. You can now refine it or get an AI answer.">>
MsgCannotConnect == <<"Error: Could not connect to backend. Ensure backend is running at ", BACKEND_URL, " and check CORS.">>
MsgNothingToAsk == <<"Please transcribe audio or refine a question first.">>
MsgAsking == <<"Sending question to AI...">>
MsgAnswered == <<"AI Answer received!">>
MsgNothingToRefine == <<"Please transcribe audio first to refine a question.">>
MsgRefining == <<"Refining question with Gemini...">>
MsgRefined == <<"Question refined by Gemini! You can now get an AI answer.">>
MsgNoRefinement == <<"Gemini did not return a valid refinement. Try again.">>

NoTranscription == <<"No transcription received.">>
NoAnswer == <<"No answer received from AI.">>
FailedToFetch == "Failed to fetch"

(***************************************************************************)
(* Audio chunks and blobs.                                                 *)
(***************************************************************************)
ChunkSizes == {0, 2000}

RECURSIVE SumSizes(_)
SumSizes(chunks) ==
    IF chunks = <<>> THEN 0 ELSE Head(chunks).size + SumSizes(Tail(chunks))

\* new Blob(parts, { type: 'audio/webm' })
Blob(parts) == [size |-> SumSizes(parts), parts |-> parts, type |-> "audio/webm"]

(***************************************************************************)
(* Initial state: the component has mounted, and the mount effect has      *)
(* called getDisplayMedia() (line 51), whose promise is pending.           *)
(***************************************************************************)
Op(name, kind, rec, arg) == [op |-> name, kind |-> kind, rec |-> rec, arg |-> arg]

Init ==
    /\ isRecording = FALSE
    /\ audioChunks = <<>>
    /\ transcribedText = Empty
    /\ refinedQuestion = Empty
    /\ aiAnswer = Empty
    /\ statusMessage = MsgInitial
    /\ isLoading = FALSE
    /\ isRefining = FALSE
    /\ mediaRecorderRef = 0
    /\ audioStreamRef = 0
    /\ streams = <<>>
    /\ recorders = <<>>
    /\ acquiring = SetToBag({[by |-> "mount", audioChunks |-> <<>>]})
    /\ mounted = TRUE
    /\ sttInFlight = EmptyBag
    /\ openaiInFlight = EmptyBag
    /\ geminiInFlight = EmptyBag
    /\ lastOp = Op("mount", "", 0, Empty)

(***************************************************************************)
(* Source acquisition on mount: getDisplayMediaAudio, lines 27-49.         *)
(***************************************************************************)
AcquireErrors == {"PolicyBlocked", "NotAllowed", "NotFound", "Other"}

\* The catch branch's choice of message, lines 39-47.
AcquireErrorMessage(err) ==
    CASE err = "PolicyBlocked" -> MsgPolicyBlocked
      [] err = "NotAllowed"    -> MsgDenied
      [] err = "NotFound"      -> MsgNotFound
      [] OTHER                 -> MsgAcquireFailed

NewStream == [active |-> TRUE]

\* The mount promise resolves with a live stream, lines 34-36.
getDisplayMediaAudioResolved ==
    \E p \in BagToSet(acquiring) :
        /\ p.by = "mount"
        /\ acquiring' = acquiring (-) SetToBag({p})
        /\ streams' = Append(streams, NewStream)
        /\ audioStreamRef' = Len(streams) + 1
        /\ statusMessage' = MsgCaptureReady
        /\ lastOp' = Op("acquired", "mount", 0, Empty)
        /\ UNCHANGED <<isRecording, audioChunks, transcribedText, refinedQuestion,
                       aiAnswer, isLoading, isRefining, mediaRecorderRef,
                       recorders, network>>
        /\ UNCHANGED mounted

\* The mount promise rejects, lines 37-48.
getDisplayMediaAudioRejected ==
    \E p \in BagToSet(acquiring), err \in AcquireErrors :
        /\ p.by = "mount"
        /\ acquiring' = acquiring (-) SetToBag({p})
        /\ statusMessage' = AcquireErrorMessage(err)
        /\ lastOp' = Op("acquireFailed", "mount", 0, Empty)
        /\ UNCHANGED <<isRecording, audioChunks, transcribedText, refinedQuestion,
                       aiAnswer, isLoading, isRefining, refs, streams, recorders,
                       network>>
        /\ UNCHANGED mounted

(***************************************************************************)
(* startRecording, lines 63-115.                                           *)
(***************************************************************************)
\* ResetResults with line 84 left out.
ResetResults_KeepRefined ==
    /\ transcribedText' = Empty
    /\ refinedQuestion' = refinedQuestion
    /\ aiAnswer' = Empty

\* Lines 83-85: the result fields of the previous cycle are cleared.
ResetResults ==
    /\ transcribedText' = Empty
    /\ refinedQuestion' = Empty
    /\ aiAnswer' = Empty

\* Line 82.
ResetChunks == audioChunks' = <<>>

\* new MediaRecorder(stream) with its two handlers, then start(1000): lines
\* 92-109.  start() throws when the stream is inactive, and then the recorder
\* stays inactive.  chunks is the audioChunks of the render whose
\* sendAudioForProcessing the onstop handler closes over (lines 103-106, 131).
\* A recorder that can fire no more events: nothing reads its closure again.
Finished == [stream |-> 0, state |-> "inactive", pending |-> 0, audioChunks |-> <<>>,
             delivered |-> <<>>, stopAccepted |-> FALSE]

NewRecorder(sid, chunks) ==
    IF streams'[sid].active
    THEN [stream |-> sid,
          state |-> "recording",
          pending |-> 0,            \* events queued by a stop: 2 = dataavailable, stop
          audioChunks |-> chunks,   \* what the onstop closure sees as audioChunks
          delivered |-> <<>>,       \* history: the non-empty chunks it delivered
          stopAccepted |-> FALSE]   \* history: stopRecording() stopped it
    ELSE Finished

\* Lines 82-114, run without suspension once a stream is at hand.
startBody(sid, chunks) ==
    LET rec == NewRecorder(sid, chunks) IN
    /\ ResetChunks
    /\ ResetResults
    /\ isRecording' = (rec.state = "recording")     \* line 86, or 113 in the catch
    /\ statusMessage' = IF rec.state = "recording" THEN MsgRecording
                        ELSE MsgErrorStarting
    /\ isLoading' = FALSE
    /\ recorders' = Append(recorders, rec)
    /\ mediaRecorderRef' = Len(recorders) + 1
    /\ UNCHANGED <<isRefining, network>>

StartsPending == BagCardinality(acquiring) -
                 (IF \E p \in BagToSet(acquiring) : p.by = "mount" THEN 1 ELSE 0)

\* Recorders that may still fire events.
Live == {r \in DOMAIN recorders : recorders[r] # Finished}

\* The bound on starts: at most limit recorders ever, MaxLive alive together.
StartsWithin(limit) ==
    /\ Len(recorders) + StartsPending < limit
    /\ Cardinality(Live) + StartsPending < MaxLive

startRecording ==
    /\ lastOp' = Op("startRecording", IF audioStreamRef = 0 THEN "reacquire" ELSE "run",
                    Len(recorders) + 1, IF audioStreamRef = 0 THEN Empty ELSE transcribedText)
    /\ IF audioStreamRef = 0
       THEN \* lines 65-69: suspend in getDisplayMedia()
            /\ statusMessage' = MsgReacquiring
            /\ acquiring' = acquiring (+) SetToBag({[by |-> "start", audioChunks |-> audioChunks]})
            /\ UNCHANGED <<isRecording, audioChunks, transcribedText, refinedQuestion,
                           aiAnswer, isLoading, isRefining, refs, streams, recorders,
                           network>>
       ELSE /\ UNCHANGED <<audioStreamRef, streams, acquiring>>
            /\ startBody(audioStreamRef, audioChunks)
    /\ UNCHANGED mounted

\* The re-acquisition resolves (line 69) and startRecording runs on, lines 70-114.
startRecordingResumed ==
    \E p \in BagToSet(acquiring) :
        /\ p.by = "start"
        /\ acquiring' = acquiring (-) SetToBag({p})
        /\ streams' = Append(streams, NewStream)
        /\ audioStreamRef' = Len(streams) + 1
        /\ startBody(Len(streams) + 1, p.audioChunks)
        /\ lastOp' = Op("startRecording", "resumed", Len(recorders) + 1, transcribedText)
        /\ UNCHANGED mounted

\* The re-acquisition rejects, lines 75-79.
startRecordingFailed ==
    \E p \in BagToSet(acquiring) :
        /\ p.by = "start"
        /\ acquiring' = acquiring (-) SetToBag({p})
        /\ statusMessage' = MsgReacquireFailed
        /\ lastOp' = Op("startRecording", "failed", 0, Empty)
        /\ UNCHANGED <<isRecording, audioChunks, transcribedText, refinedQuestion,
                       aiAnswer, isLoading, isRefining, refs, streams, recorders,
                       network>>
        /\ UNCHANGED mounted

(***************************************************************************)
(* The recorder's events, lines 95-106, and stopRecording, lines 118-125.  *)
(***************************************************************************)
Chunk(r, size) == [rec |-> r, idx |-> Len(recorders[r].delivered) + 1, size |-> size]

\* The updater of line 98 without the test of line 97.
ondataavailable_NoSizeTest(prev, data) == Append(prev, data)

\* The updater of line 98 under the test of line 97.
ondataavailable(prev, data) ==
    IF data.size > 0 THEN Append(prev, data) ELSE prev

\* A dataavailable event of recorder r carrying a blob of the given size.
Deliver(r, size) ==
    /\ audioChunks' = ondataavailable(audioChunks, Chunk(r, size))
    /\ UNCHANGED <<isRecording, transcribedText, refinedQuestion, aiAnswer,
                   statusMessage, isLoading, isRefining, refs, streams, acquiring,
                   network>>

Delivered(r, size) ==
    IF size > 0 THEN Append(recorders[r].delivered, Chunk(r, size))
    ELSE recorders[r].delivered

\* The 1000 ms timeslice elapses while r records (line 109).
dataavailableTimeslice ==
    \E r \in DOMAIN recorders, size \in ChunkSizes :
        /\ recorders[r].state = "recording"
        /\ Len(recorders[r].delivered) < MaxChunks
        /\ Deliver(r, size)
        /\ recorders' = [recorders EXCEPT ![r].delivered = Delivered(r, size)]
        /\ lastOp' = Op("dataavailable", "timeslice", r, Empty)
        /\ UNCHANGED mounted

\* A stopped recorder first fires dataavailable with what it still holds.
dataavailableFinal ==
    \E r \in DOMAIN recorders, size \in ChunkSizes :
        /\ recorders[r].pending = 2
        /\ Deliver(r, size)
        /\ recorders' = [recorders EXCEPT ![r].pending = 1,
                                          ![r].delivered = Delivered(r, size)]
        /\ lastOp' = Op("dataavailable", "final", r, Empty)
        /\ UNCHANGED mounted

\* CanStop without the test of the recorder's state.
CanStop_AnyRecorder == mediaRecorderRef # 0

\* The test of line 119.
CanStop ==
    /\ mediaRecorderRef # 0
    /\ recorders[mediaRecorderRef].state = "recording"

stopRecording ==
    /\ lastOp' = Op("stopRecording", IF CanStop THEN "accepted" ELSE "ignored",
                    mediaRecorderRef, Empty)
    /\ IF CanStop
       THEN /\ recorders' = [recorders EXCEPT ![mediaRecorderRef].state = "inactive",
                                              ![mediaRecorderRef].pending = 2,
                                              ![mediaRecorderRef].stopAccepted = TRUE]
            /\ isRecording' = FALSE
            /\ statusMessage' = MsgProcessing
            /\ isLoading' = TRUE
            /\ UNCHANGED <<audioChunks, transcribedText, refinedQuestion, aiAnswer,
                           isRefining, refs, streams, acquiring, network>>
       ELSE UNCHANGED <<state, refs, platform, network>>
    /\ UNCHANGED mounted

\* Every track of a stream ends (the user stops sharing, the shared tab is
\* closed): the platform stops the recorders of that stream by itself, and
\* each fires dataavailable and stop as after stop().
\* The program can only observe the end of a stream it still uses.
InUse(s) ==
    \/ audioStreamRef = s
    \/ \E r \in DOMAIN recorders : recorders[r].stream = s /\ recorders[r].state = "recording"

trackEnded ==
    \E s \in DOMAIN streams :
        /\ streams[s].active
        /\ InUse(s)
        /\ streams' = [streams EXCEPT ![s].active = FALSE]
        /\ recorders' = [r \in DOMAIN recorders |->
                           IF recorders[r].stream = s /\ recorders[r].state = "recording"
                           THEN [recorders[r] EXCEPT !.state = "inactive", !.pending = 2]
                           ELSE recorders[r]]
        /\ lastOp' = Op("trackEnded", "", 0, Empty)
        /\ UNCHANGED <<state, refs, acquiring, network>>
        /\ UNCHANGED mounted

(***************************************************************************)
(* sendAudioForProcessing, lines 130-171.                                  *)
(***************************************************************************)
\* Line 131, in the closure recorder r's onstop handler holds.
audioBlob(r) == Blob(recorders[r].audioChunks)

\* IsEmptyBlob with the comparison mistyped.
IsEmptyBlob_Negative(blob) == blob.size < 0

\* Line 133.
IsEmptyBlob(blob) == blob.size = 0

\* Lines 131-148: up to the await of fetch.
sendAudioForProcessing(r) ==
    IF IsEmptyBlob(audioBlob(r))
    THEN /\ statusMessage' = MsgNoAudio
         /\ isLoading' = FALSE
         /\ UNCHANGED <<isRecording, audioChunks, transcribedText, refinedQuestion,
                        aiAnswer, isRefining, network>>
    ELSE /\ statusMessage' = MsgSending
         /\ sttInFlight' = sttInFlight (+) SetToBag({[rec |-> r, body |-> audioBlob(r)]})
         /\ UNCHANGED <<isRecording, audioChunks, transcribedText, refinedQuestion,
                        aiAnswer, isLoading, isRefining, openaiInFlight, geminiInFlight>>

\* The stop event of recorder r, lines 103-106.
onstop ==
    \E r \in DOMAIN recorders :
        /\ recorders[r].pending = 1
        /\ recorders' = [recorders EXCEPT ![r] = Finished]
        /\ sendAudioForProcessing(r)
        /\ lastOp' = Op("onstop", IF IsEmptyBlob(audioBlob(r)) THEN "empty" ELSE "sent",
                        r, Empty)
        /\ UNCHANGED <<refs, streams, acquiring>>
        /\ UNCHANGED mounted

(***************************************************************************)
(* Responses.  kind: "ok" a success response whose JSON parses; "okBadJson" *)
(* one whose body does not parse; "http" a non-success response with a     *)
(* JSON body; "httpBadJson" one without; "transport" fetch() itself        *)
(* rejected.  msg: the transcription / answer / message field (Empty when  *)
(* the field is absent), or the text of the transport error.               *)
(***************************************************************************)
Resp(kind, msg) == [kind |-> kind, msg |-> msg]

Status500 == "500"
StatusText500 == <<"Internal Server Error">>
JsonSyntaxError == <<"Unexpected token < in JSON at position 0">>
ServiceMessages == {<<"boom">>, <<FailedToFetch>>}
TransportErrors == {<<FailedToFetch>>, <<"NetworkError when attempting to fetch resource.">>}

ErrorResponses ==
    {Resp("http", m) : m \in ServiceMessages}
    \cup {Resp("httpBadJson", Empty), Resp("okBadJson", Empty)}
    \cup {Resp("transport", m) : m \in TransportErrors}

\* The failures of a service whose catch branch does not look into the message.
PlainErrorResponses == {Resp("http", <<"boom">>), Resp("transport", <<FailedToFetch>>)}

\* error.message in the catch branch: lines 150-153 (and 195-198, 243-246).
ErrorMessage(api, resp) ==
    CASE resp.kind = "http" ->
            <<api, Status500, " - ">> \o Or(resp.msg, StatusText500)
      [] resp.kind = "httpBadJson" ->
            <<api, Status500, " - ">> \o StatusText500
      [] resp.kind = "okBadJson" -> JsonSyntaxError
      [] OTHER -> resp.msg

Transcriptions == {Empty, <<"hello">>}
SttResponses == {Resp("ok", t) : t \in Transcriptions} \cup ErrorResponses

\* transcription without the fallback of line 156.
transcription_Raw(resp) == resp.msg

\* Line 156.
transcription(resp) == Or(resp.msg, NoTranscription)

\* Lines 160-166.
SttCatch(message) ==
    IF Includes(message, FailedToFetch) THEN MsgCannotConnect
    ELSE <<"Error during transcription: ">> \o message \o <<". Please try again.">>

\* Lines 167-170.
SttFinally ==
    /\ isLoading' = FALSE
    /\ audioChunks' = <<>>

\* The fetch of line 145 settles and sendAudioForProcessing runs on to its end,
\* lines 150-170.
sttResponse ==
    \E req \in BagToSet(sttInFlight), resp \in SttResponses :
        /\ sttInFlight' = sttInFlight (-) SetToBag({req})
        /\ IF resp.kind = "ok"
           THEN /\ transcribedText' = transcription(resp)
                /\ statusMessage' = MsgTranscribed
           ELSE /\ statusMessage' = SttCatch(ErrorMessage("STT API error: ", resp))
                /\ UNCHANGED transcribedText
        /\ SttFinally
        /\ lastOp' = Op("sttResponse", resp.kind, req.rec, resp.msg)
        /\ UNCHANGED <<isRecording, refinedQuestion, aiAnswer, isRefining, refs,
                       platform, openaiInFlight, geminiInFlight>>
        /\ UNCHANGED mounted

(***************************************************************************)
(* getAiAnswer, lines 174-211.                                             *)
(***************************************************************************)
UserRequests == BagCardinality(openaiInFlight) + BagCardinality(geminiInFlight)

\* questionToSend falling back to a placeholder instead of staying empty.
questionToSend_OrPlaceholder == Or(Or(refinedQuestion, transcribedText), NoTranscription)

\* questionToSend with the operands of || exchanged.
questionToSend_Swapped == Or(transcribedText, refinedQuestion)

\* Line 175.
questionToSend == Or(refinedQuestion, transcribedText)

getAiAnswer ==
    /\ Truthy(questionToSend) => UserRequests < MaxInFlight
    /\ lastOp' = Op("getAiAnswer", IF Truthy(questionToSend) THEN "sent" ELSE "rejected",
                    0, questionToSend)
    /\ IF ~Truthy(questionToSend)
       THEN /\ statusMessage' = MsgNothingToAsk
            /\ UNCHANGED <<isRecording, audioChunks, transcribedText, refinedQuestion,
                           aiAnswer, isLoading, isRefining, network>>
       ELSE /\ isLoading' = TRUE
            /\ statusMessage' = MsgAsking
            /\ aiAnswer' = Empty
            /\ openaiInFlight' = openaiInFlight (+) SetToBag({[question |-> questionToSend]})
            /\ UNCHANGED <<isRecording, audioChunks, transcribedText, refinedQuestion,
                           isRefining, sttInFlight, geminiInFlight>>
    /\ UNCHANGED <<refs, platform>>
    /\ UNCHANGED mounted

Answers == {Empty, <<"forty-two">>}
OpenaiResponses == {Resp("ok", a) : a \in Answers} \cup PlainErrorResponses

\* Line 201.
answer(resp) == Or(resp.msg, NoAnswer)

\* Line 207.
OpenaiCatch(message) ==
    <<"Error getting AI answer: ">> \o message \o <<". Please try again.">>

\* The fetch of line 187 settles and getAiAnswer runs on to its end, lines 195-210.
openaiResponse ==
    \E req \in BagToSet(openaiInFlight), resp \in OpenaiResponses :
        /\ openaiInFlight' = openaiInFlight (-) SetToBag({req})
        /\ IF resp.kind = "ok"
           THEN /\ aiAnswer' = answer(resp)
                /\ statusMessage' = MsgAnswered
           ELSE /\ statusMessage' = OpenaiCatch(ErrorMessage("OpenAI API error: ", resp))
                /\ UNCHANGED aiAnswer
        /\ isLoading' = FALSE
        /\ lastOp' = Op("openaiResponse", resp.kind, 0, resp.msg)
        /\ UNCHANGED <<isRecording, audioChunks, transcribedText, refinedQuestion,
                       isRefining, refs, platform, sttInFlight, geminiInFlight>>
        /\ UNCHANGED mounted

(***************************************************************************)
(* handleRefineQuestion, lines 215-265.                                    *)
(***************************************************************************)
RefineInstruction == "Refine the following question to be more clear, concise, and suitable for an AI assistant. Focus on making it a direct query. Do not add any conversational filler. Just the refined question:\n\n"

\* Line 233.
RefinePrompt(text) == <<RefineInstruction, "\"">> \o text \o <<"\"">>

handleRefineQuestion ==
    /\ Truthy(transcribedText) => UserRequests < MaxInFlight
    /\ lastOp' = Op("handleRefineQuestion",
                    IF Truthy(transcribedText) THEN "sent" ELSE "rejected",
                    0, transcribedText)
    /\ IF ~Truthy(transcribedText)
       THEN /\ statusMessage' = MsgNothingToRefine
            /\ UNCHANGED <<isRecording, audioChunks, transcribedText, refinedQuestion,
                           aiAnswer, isLoading, isRefining, network>>
       ELSE /\ isRefining' = TRUE
            /\ statusMessage' = MsgRefining
            /\ refinedQuestion' = Empty
            /\ geminiInFlight' = geminiInFlight (+)
                                 SetToBag({[prompt |-> RefinePrompt(transcribedText)]})
            /\ UNCHANGED <<isRecording, audioChunks, transcribedText, aiAnswer,
                           isLoading, sttInFlight, openaiInFlight>>
    /\ UNCHANGED <<refs, platform>>
    /\ UNCHANGED mounted

\* A success response of the Refinement Service.  kind: "okText" when
\* candidates[0].content.parts[0] exists, msg being its text (Undefined when
\* the part has no text); "okNoCandidates" when the candidates array is absent
\* or empty; "okNoParts" when the first candidate has no content, no parts or
\* an empty parts array.
Refinements == {<<"refined">>, Empty, Undefined}
GeminiResponses ==
    {Resp("okText", t) : t \in Refinements}
    \cup {Resp("okNoCandidates", Empty), Resp("okNoParts", Empty)}
    \cup PlainErrorResponses

\* The test of lines 249-251 without its length conditions.
HasFirstPart_AnyOk(resp) == resp.kind \in {"okText", "okNoCandidates", "okNoParts"}

\* The test of lines 249-251.
HasFirstPart(resp) == resp.kind = "okText"

\* The catch of line 261 reporting the soft failure of line 256.
GeminiCatch_Soft(message) == MsgNoRefinement

\* Line 261.
GeminiCatch(message) == <<"Error refining question: ">> \o message \o <<".">>

\* handleRefineQuestion after its fetch, with a guard that drops a success
\* response whose prompt was not built from the current transcript.
geminiResponse_CycleGuard ==
    \E req \in BagToSet(geminiInFlight), resp \in GeminiResponses :
        /\ geminiInFlight' = geminiInFlight (-) SetToBag({req})
        /\ IF resp.kind \in {"okText", "okNoCandidates", "okNoParts"}
           THEN IF req.prompt # RefinePrompt(transcribedText)
                THEN UNCHANGED <<refinedQuestion, statusMessage>>
                ELSE IF HasFirstPart(resp)
                     THEN /\ refinedQuestion' = resp.msg
                          /\ statusMessage' = MsgRefined
                     ELSE /\ statusMessage' = MsgNoRefinement
                          /\ UNCHANGED refinedQuestion
           ELSE /\ statusMessage' = GeminiCatch(ErrorMessage("Gemini API error: ", resp))
                /\ UNCHANGED refinedQuestion
        /\ isRefining' = FALSE
        /\ lastOp' = Op("geminiResponse", resp.kind, 0, resp.msg)
        /\ UNCHANGED <<isRecording, audioChunks, transcribedText, aiAnswer, isLoading,
                       refs, platform, sttInFlight, openaiInFlight>>
        /\ UNCHANGED mounted

\* The fetch of line 237 settles and handleRefineQuestion runs on to its end,
\* lines 243-264.
geminiResponse ==
    \E req \in BagToSet(geminiInFlight), resp \in GeminiResponses :
        /\ geminiInFlight' = geminiInFlight (-) SetToBag({req})
        /\ IF resp.kind \in {"okText", "okNoCandidates", "okNoParts"}
           THEN IF HasFirstPart(resp)
                THEN /\ refinedQuestion' = resp.msg
                     /\ statusMessage' = MsgRefined
                ELSE /\ statusMessage' = MsgNoRefinement
                     /\ UNCHANGED refinedQuestion
           ELSE /\ statusMessage' = GeminiCatch(ErrorMessage("Gemini API error: ", resp))
                /\ UNCHANGED refinedQuestion
        /\ isRefining' = FALSE
        /\ lastOp' = Op("geminiResponse", resp.kind, 0, resp.msg)
        /\ UNCHANGED <<isRecording, audioChunks, transcribedText, aiAnswer, isLoading,
                       refs, platform, sttInFlight, openaiInFlight>>
        /\ UNCHANGED mounted

(***************************************************************************)
(* The specification of the handlers: each may be invoked in any state,    *)
(* whether or not the page would offer its button.                         *)
(***************************************************************************)
invokeStart == StartsWithin(MaxDirect) /\ startRecording

Next ==
    \/ getDisplayMediaAudioResolved
    \/ getDisplayMediaAudioRejected
    \/ invokeStart
    \/ startRecordingResumed
    \/ startRecordingFailed
    \/ dataavailableTimeslice
    \/ dataavailableFinal
    \/ stopRecording
    \/ trackEnded
    \/ onstop
    \/ sttResponse
    \/ getAiAnswer
    \/ openaiResponse
    \/ handleRefineQuestion
    \/ geminiResponse

Spec == Init /\ [][Next]_vars

(***************************************************************************)
(* The specification of the rendered page: a handler runs only when its    *)
(* button is rendered and enabled, lines 279-347.                          *)
(***************************************************************************)
startEnabled == ~(isRecording \/ isLoading)              \* line 281
stopEnabled == ~(~isRecording \/ isLoading)              \* line 290
refineEnabled == Truthy(transcribedText) /\ ~(isRefining \/ isLoading)   \* 312, 316
answerEnabled == (Truthy(transcribedText) \/ Truthy(refinedQuestion))
                 /\ ~(isLoading \/ isRefining)           \* lines 336, 340

clickStart == startEnabled /\ StartsWithin(MaxRecorders) /\ startRecording
clickStop == stopEnabled /\ stopRecording
clickRefine == refineEnabled /\ handleRefineQuestion
clickAnswer == answerEnabled /\ getAiAnswer

NextUI ==
    \/ getDisplayMediaAudioResolved
    \/ getDisplayMediaAudioRejected
    \/ clickStart
    \/ startRecordingResumed
    \/ startRecordingFailed
    \/ dataavailableTimeslice
    \/ dataavailableFinal
    \/ clickStop
    \/ trackEnded
    \/ onstop
    \/ sttResponse
    \/ clickAnswer
    \/ openaiResponse
    \/ clickRefine
    \/ geminiResponse

SpecUI == Init /\ [][NextUI]_vars

(***************************************************************************)
(* The specification of the page that can be torn down.  The cleanup of    *)
(* the mount effect, lines 54-59, runs when the component unmounts: it     *)
(* stops the tracks of the stream the ref holds, which makes the platform  *)
(* stop the recorders of that stream, and empties the ref.  Nothing is     *)
(* cancelled: pending getDisplayMedia() promises, recorder events and      *)
(* requests go on and their continuations run.  After the unmount no       *)
(* button can be clicked, and the state cells are rendered nowhere.        *)
(***************************************************************************)
unmount ==
    /\ mounted
    /\ mounted' = FALSE
    /\ IF audioStreamRef # 0
       THEN /\ streams' = [streams EXCEPT ![audioStreamRef].active = FALSE]
            /\ recorders' = [r \in DOMAIN recorders |->
                               IF /\ recorders[r].stream = audioStreamRef
                                  /\ recorders[r].state = "recording"
                               THEN [recorders[r] EXCEPT !.state = "inactive", !.pending = 2]
                               ELSE recorders[r]]
            /\ audioStreamRef' = 0
       ELSE UNCHANGED <<audioStreamRef, streams, recorders>>
    /\ lastOp' = Op("unmount", IF audioStreamRef # 0 THEN "released" ELSE "nothing",
                    audioStreamRef, Empty)
    /\ UNCHANGED <<state, mediaRecorderRef, acquiring, network>>

pageStart == mounted /\ startEnabled /\ StartsWithin(MaxDirect) /\ startRecording
pageStop == mounted /\ clickStop
pageRefine == mounted /\ clickRefine
pageAnswer == mounted /\ clickAnswer

NextTeardown ==
    \/ getDisplayMediaAudioResolved
    \/ getDisplayMediaAudioRejected
    \/ pageStart
    \/ startRecordingResumed
    \/ startRecordingFailed
    \/ dataavailableTimeslice
    \/ dataavailableFinal
    \/ pageStop
    \/ trackEnded
    \/ onstop
    \/ sttResponse
    \/ pageAnswer
    \/ openaiResponse
    \/ pageRefine
    \/ geminiResponse
    \/ unmount

SpecTeardown == Init /\ [][NextTeardown]_vars

(***************************************************************************)
(* The specification of the rendered page under fairness.  Every promise   *)
(* the program waits on settles (getDisplayMedia() resolves or rejects, a  *)
(* fetch resolves or rejects), a stopped recorder fires its dataavailable  *)
(* and stop events, and a user who sees an enabled Stop button clicks it.  *)
(* Nothing obliges the user to start, refine or ask, a timeslice to bring  *)
(* a chunk, or the tracks of a stream to end.                              *)
(***************************************************************************)
NextPage ==
    \/ getDisplayMediaAudioResolved
    \/ getDisplayMediaAudioRejected
    \/ pageStart
    \/ startRecordingResumed
    \/ startRecordingFailed
    \/ dataavailableTimeslice
    \/ dataavailableFinal
    \/ pageStop
    \/ trackEnded
    \/ onstop
    \/ sttResponse
    \/ pageAnswer
    \/ openaiResponse
    \/ pageRefine
    \/ geminiResponse

Fairness ==
    /\ WF_vars(getDisplayMediaAudioResolved \/ getDisplayMediaAudioRejected)
    /\ WF_vars(startRecordingResumed \/ startRecordingFailed)
    /\ WF_vars(dataavailableFinal)
    /\ WF_vars(onstop)
    /\ WF_vars(sttResponse)
    /\ WF_vars(openaiResponse)
    /\ WF_vars(geminiResponse)
    /\ SF_vars(pageStop)

SpecFair == Init /\ [][NextPage]_vars /\ Fairness

(***************************************************************************)
(* Properties.                                                             *)
(***************************************************************************)
Recording == {r \in DOMAIN recorders : recorders[r].state = "recording"}

\* C1: when the stop event of a recorder that stopRecording() stopped fires,
\* and the recorder delivered chunks of total size > 0, the transcription
\* stage sends a payload made of exactly the non-empty chunks that recorder
\* delivered, in delivery order, its size the sum of their sizes.
C1_PayloadIsSessionChunks ==
    [][(/\ lastOp'.op = "onstop"
        /\ recorders[lastOp'.rec].stopAccepted
        /\ SumSizes(recorders[lastOp'.rec].delivered) > 0)
       => \E req \in BagToSet(sttInFlight') :
             /\ req.rec = lastOp'.rec
             /\ req.body.parts = recorders[lastOp'.rec].delivered
             /\ req.body.size = SumSizes(recorders[lastOp'.rec].delivered)]_vars

\* C2: the recording is handed to sendAudioForProcessing only by the stop
\* event of a recorder that an accepted stopRecording() stopped.
C2_HandedOnlyAfterStop ==
    [][lastOp'.op = "onstop" => recorders[lastOp'.rec].stopAccepted]_vars

\* C3: a start that puts a new recorder into the recording state leaves the
\* transcript, refined question and answer empty and the chunk buffer empty,
\* and the new recorder has delivered no chunk yet.
C3_StartResetsBeforeChunks ==
    [][(/\ Len(recorders') > Len(recorders)
        /\ recorders'[Len(recorders')].state = "recording")
       => /\ transcribedText' = Empty
          /\ refinedQuestion' = Empty
          /\ aiAnswer' = Empty
          /\ audioChunks' = <<>>
          /\ recorders'[Len(recorders')].delivered = <<>>]_vars

\* C3 happens: a recording was started while a transcript was displayed.
C3_Witness ==
    /\ lastOp.op = "startRecording"
    /\ lastOp.kind \in {"run", "resumed"}
    /\ lastOp.arg # Empty
    /\ recorders[lastOp.rec].state = "recording"
    /\ transcribedText = Empty

\* C4: stopRecording() invoked while there is no recorder, or the recorder is
\* not recording, changes nothing and sends nothing.
C4_StopOutsideRecordingIsNoop ==
    [][(/\ lastOp'.op = "stopRecording"
        /\ \/ mediaRecorderRef = 0
           \/ recorders[mediaRecorderRef].state # "recording")
       => UNCHANGED <<state, refs, platform, network>>]_vars

\* C4 happens: stopRecording() was invoked on a recorder the platform had
\* already stopped, with the page still showing a recording.
C4_Witness ==
    /\ lastOp.op = "stopRecording"
    /\ mediaRecorderRef # 0
    /\ recorders[mediaRecorderRef].state = "inactive"
    /\ isRecording

\* C5: at most one recorder is recording at any time.
C5_AtMostOneRecording == Cardinality(Recording) <= 1

\* C6: handleRefineQuestion() invoked with an empty transcript, and
\* getAiAnswer() invoked with an empty refined question and an empty
\* transcript, send nothing and change only the status message.
C6_EmptyInputSendsNothing ==
    [][(\/ lastOp'.op = "handleRefineQuestion" /\ transcribedText = Empty
        \/ /\ lastOp'.op = "getAiAnswer"
           /\ refinedQuestion = Empty
           /\ transcribedText = Empty)
       => /\ UNCHANGED <<isRecording, audioChunks, transcribedText, refinedQuestion,
                         aiAnswer, isLoading, isRefining, refs, platform, network>>
          /\ statusMessage' = IF lastOp'.op = "getAiAnswer" THEN MsgNothingToAsk
                              ELSE MsgNothingToRefine]_vars

\* C6 happens: getAiAnswer() was invoked with nothing to ask.
C6_Witness ==
    /\ lastOp.op = "getAiAnswer"
    /\ refinedQuestion = Empty
    /\ transcribedText = Empty
    /\ statusMessage = MsgNothingToAsk
    /\ openaiInFlight = EmptyBag

\* C7: a stop event whose payload has size 0 sends nothing, writes the
\* "no audio" message and leaves isLoading false; every transcription
\* request in flight carries a payload of size > 0.
C7_EmptyPayloadNotSent ==
    /\ [](\A req \in BagToSet(sttInFlight) : req.body.size > 0)
    /\ [][(/\ lastOp'.op = "onstop"
           /\ SumSizes(recorders[lastOp'.rec].audioChunks) = 0)
          => /\ sttInFlight' = sttInFlight
             /\ statusMessage' = MsgNoAudio
             /\ isLoading' = FALSE]_vars

\* C7 happens: a stopped recording ended with the "no audio" message.
C7_Witness ==
    /\ lastOp.op = "onstop"
    /\ statusMessage = MsgNoAudio
    /\ ~isLoading
    /\ sttInFlight = EmptyBag

\* A result field that holds no text.
NoText(v) == v \in {Empty, Undefined}

\* C8: getAiAnswer() invoked with text in the refined question or in the
\* transcript sends exactly one request; its question is the refined question
\* if that holds text, and the transcript otherwise.
C8_RefinedOverridesRaw ==
    [][(/\ lastOp'.op = "getAiAnswer"
        /\ ~NoText(refinedQuestion) \/ ~NoText(transcribedText))
       => openaiInFlight' = openaiInFlight (+)
             SetToBag({[question |-> IF ~NoText(refinedQuestion) THEN refinedQuestion
                                     ELSE transcribedText]})]_vars

\* C8 happens: a question was sent while both fields held different texts.
C8_Witness ==
    /\ lastOp.op = "getAiAnswer"
    /\ ~NoText(refinedQuestion)
    /\ ~NoText(transcribedText)
    /\ refinedQuestion # transcribedText
    /\ BagIn([question |-> refinedQuestion], openaiInFlight)

\* C9, as claimed: after a success response carrying the transcription s the
\* transcript is s, the status is the "ready" message and isLoading is false.
C9_TranscriptIsResponse ==
    [][(lastOp'.op = "sttResponse" /\ lastOp'.kind = "ok")
       => /\ transcribedText' = lastOp'.arg
          /\ statusMessage' = MsgTranscribed
          /\ isLoading' = FALSE]_vars

\* C9, amended: the transcript is s when s is not empty, and the placeholder
\* "No transcription received." when it is.
C9_TranscriptIsResponseOrPlaceholder ==
    [][(lastOp'.op = "sttResponse" /\ lastOp'.kind = "ok")
       => /\ transcribedText' = IF lastOp'.arg # Empty THEN lastOp'.arg
                                ELSE NoTranscription
          /\ statusMessage' = MsgTranscribed
          /\ isLoading' = FALSE]_vars

\* C9 happens: the response "hello" was applied.
C9_Witness ==
    /\ lastOp.op = "sttResponse"
    /\ lastOp.kind = "ok"
    /\ lastOp.arg = <<"hello">>
    /\ transcribedText = <<"hello">>

\* C10: after a non-success response carrying the message m the status
\* contains m, after a transport failure it is the connectivity message; in
\* both cases the transcript is left as it was, isLoading is false and no new
\* transcription request is sent.
C10_FailureSurfacesMessage ==
    [][(lastOp'.op = "sttResponse" /\ lastOp'.kind \in {"http", "transport"})
       => /\ IF lastOp'.kind = "http" THEN Contains(statusMessage', lastOp'.arg)
             ELSE statusMessage' = MsgCannotConnect
          /\ transcribedText' = transcribedText
          /\ isLoading' = FALSE
          /\ BagCardinality(sttInFlight') = BagCardinality(sttInFlight) - 1]_vars

\* C11: when the refinement request settles with a success response whose
\* candidates list is empty or absent, the refined-question field is empty
\* afterwards, the status message is the "no valid refinement" message,
\* isRefining is false, the transcript is unchanged, and the catch branch
\* (an "Error refining question" status) is not taken.
C11_NoCandidatesNoRefinement ==
    [][(lastOp'.op = "geminiResponse" /\ lastOp'.kind = "okNoCandidates")
       => /\ refinedQuestion' = Empty
          /\ statusMessage' = MsgNoRefinement
          /\ ~isRefining'
          /\ transcribedText' = transcribedText]_vars

C11_Witness ==
    /\ lastOp.op = "geminiResponse"
    /\ lastOp.kind = "okNoCandidates"
    /\ Truthy(transcribedText)
    /\ statusMessage = MsgNoRefinement

\* C12: the refinement stage reports success (the "question refined" status)
\* only when the first candidate of the response has non-empty text, and then
\* the refined-question field is exactly that text; every well-formed
\* response without usable text (no candidates, no parts, or a first part
\* whose text is empty or missing) leaves the refined-question field empty
\* and sets the "no valid refinement" status.
C12_SuccessOnlyWithText ==
    [][(lastOp'.op = "geminiResponse")
       => /\ (statusMessage' = MsgRefined)
                => (Truthy(lastOp'.arg) /\ refinedQuestion' = lastOp'.arg)
          /\ (lastOp'.kind \in {"okText", "okNoCandidates", "okNoParts"}
              /\ ~Truthy(lastOp'.arg))
                => (refinedQuestion' = Empty /\ statusMessage' = MsgNoRefinement)]_vars

\* C13 (as stated): when a refinement request fails, the transcript has the
\* value it had when refine was invoked (the request's prompt was built from
\* it); when an answer request fails, the transcript and the refined question
\* have the values they had when answer was invoked (the request's question
\* was chosen from them); the failing stage clears its busy flag and writes
\* an error status.
C13_EarlierOutputsAsAtInvocation ==
    [][/\ (lastOp'.op = "geminiResponse" /\ lastOp'.kind \in {"http", "transport"})
            => /\ \A req \in BagToSet(geminiInFlight) :
                      CopiesIn(req, geminiInFlight') < CopiesIn(req, geminiInFlight)
                          => req.prompt = RefinePrompt(transcribedText')
               /\ ~isRefining'
               /\ Head(statusMessage') = "Error refining question: "
       /\ (lastOp'.op = "openaiResponse" /\ lastOp'.kind \in {"http", "transport"})
            => /\ \A req \in BagToSet(openaiInFlight) :
                      CopiesIn(req, openaiInFlight') < CopiesIn(req, openaiInFlight)
                          => req.question = Or(refinedQuestion', transcribedText')
               /\ ~isLoading'
               /\ Head(statusMessage') = "Error getting AI answer: "]_vars

\* C13 (amended): applying the failure of a refinement request changes
\* neither the transcript nor the answer, and applying the failure of an
\* answer request changes neither the transcript nor the refined question
\* nor the answer: each field keeps the value it had just before the failure
\* arrived.  The failing stage clears its busy flag and writes an error
\* status.
C13_FailureLeavesEarlierOutputs ==
    [][/\ (lastOp'.op = "geminiResponse" /\ lastOp'.kind \in {"http", "transport"})
            => /\ transcribedText' = transcribedText
               /\ refinedQuestion' = refinedQuestion
               /\ aiAnswer' = aiAnswer
               /\ ~isRefining'
               /\ Head(statusMessage') = "Error refining question: "
       /\ (lastOp'.op = "openaiResponse" /\ lastOp'.kind \in {"http", "transport"})
            => /\ transcribedText' = transcribedText
               /\ refinedQuestion' = refinedQuestion
               /\ aiAnswer' = aiAnswer
               /\ ~isLoading'
               /\ Head(statusMessage') = "Error getting AI answer: "]_vars

C13_Witness ==
    /\ lastOp.op = "openaiResponse"
    /\ lastOp.kind = "transport"
    /\ Truthy(transcribedText)
    /\ Truthy(refinedQuestion)
    /\ ~isLoading

\* C14: there is no cancellation and no cycle guard: the response of every
\* dispatched request can be applied whenever it arrives, and a success
\* response is written to the current fields whatever happened since its
\* dispatch (the transcript for a transcription, the answer for an answer,
\* the refined question for a refinement); in particular a refinement
\* dispatched before a fresh start() writes the refined question that the
\* start() had reset.
C14_ResponsesAppliedOnArrival ==
    /\ [](/\ (sttInFlight # EmptyBag) => ENABLED sttResponse
          /\ (openaiInFlight # EmptyBag) => ENABLED openaiResponse
          /\ (geminiInFlight # EmptyBag) => ENABLED geminiResponse)
    /\ [][/\ (lastOp'.op = "sttResponse" /\ lastOp'.kind = "ok")
               => transcribedText' = Or(lastOp'.arg, NoTranscription)
          /\ (lastOp'.op = "openaiResponse" /\ lastOp'.kind = "ok")
               => aiAnswer' = Or(lastOp'.arg, NoAnswer)
          /\ (lastOp'.op = "geminiResponse" /\ lastOp'.kind = "okText")
               => refinedQuestion' = lastOp'.arg]_vars

\* A refinement of an earlier cycle's transcript has been written into the
\* cycle that a later start() opened.
C14_Witness ==
    /\ lastOp.op = "geminiResponse"
    /\ lastOp.kind = "okText"
    /\ refinedQuestion = <<"refined">>
    /\ transcribedText = Empty
    /\ isRecording
    /\ mediaRecorderRef # 0
    /\ recorders[mediaRecorderRef].state = "recording"

\* C15: when start, stop, refine and answer are invoked only while their
\* buttons are rendered and enabled, no two stage requests (transcription,
\* refinement, answer) are in flight together, and isLoading and isRefining
\* are never both true.
C15_OneStageAtATime ==
    /\ BagCardinality(sttInFlight) + BagCardinality(openaiInFlight)
           + BagCardinality(geminiInFlight) <= 1
    /\ ~(isLoading /\ isRefining)

\* C16: once the component has been unmounted, every audio stream that was
\* ever acquired (at startup or by a start's re-acquisition, resolved before
\* or after the unmount) has its tracks stopped and is not held by
\* audioStreamRef; an unmount with an empty ref changes nothing.
C16_TeardownReleasesEverySource ==
    /\ ~mounted => /\ audioStreamRef = 0
                   /\ \A s \in DOMAIN streams : ~streams[s].active
    /\ (lastOp.op = "unmount" /\ lastOp.kind = "nothing") => audioStreamRef = 0

\* C17: a failed start leaves a safe prior state.  When the start found no
\* stream and its re-acquisition fails, the component is not recording, no
\* recorder is created, and the chunk buffer, the loading flag and the result
\* fields are unchanged: only the status message is written.  When starting
\* the recorder itself fails, isRecording ends false and no recorder delivers
\* chunks.
C17_FailedStartIsSafe ==
    [][/\ (lastOp'.op = "startRecording" /\ lastOp'.kind = "failed")
            => /\ ~isRecording'
               /\ Recording = {}
               /\ recorders' = recorders
               /\ mediaRecorderRef' = mediaRecorderRef
               /\ audioChunks' = audioChunks
               /\ isLoading' = isLoading
               /\ <<transcribedText', refinedQuestion', aiAnswer'>>
                      = <<transcribedText, refinedQuestion, aiAnswer>>
               /\ statusMessage' = MsgReacquireFailed
       /\ (/\ lastOp'.op = "startRecording"
           /\ lastOp'.kind \in {"run", "resumed"}
           /\ recorders'[lastOp'.rec].state # "recording")
            => /\ ~isRecording'
               /\ \A r \in DOMAIN recorders' :
                      recorders'[r].state # "recording" /\ recorders'[r].pending # 2]_vars

\* C18: the chunk callback drops a chunk of size zero and leaves the buffer
\* unchanged; a chunk of size > 0 is appended at the end of the buffer, so
\* the buffer keeps the chunks in the order of their delivery.
C18_ChunkAppendedOrDropped ==
    [][(lastOp'.op = "dataavailable")
       => LET before == recorders[lastOp'.rec].delivered
              after == recorders'[lastOp'.rec].delivered
          IN  IF Len(after) > Len(before)
              THEN /\ after[Len(after)].size > 0
                   /\ audioChunks' = Append(audioChunks, after[Len(after)])
              ELSE audioChunks' = audioChunks]_vars

\* A recorder that has delivered nothing but a chunk of size zero, while the
\* buffer holds a chunk of another recorder.
C18_Witness ==
    /\ lastOp.op = "dataavailable"
    /\ lastOp.kind = "timeslice"
    /\ recorders[lastOp.rec].delivered = <<>>
    /\ audioChunks # <<>>

\* C19: the busy flags reflect the requests in flight: while a transcription
\* or an answer request is in flight isLoading is true, and while a
\* refinement request is in flight isRefining is true; nothing clears a flag
\* while its request is outstanding.
C19_BusyFlagsCoverRequests ==
    /\ (sttInFlight # EmptyBag \/ openaiInFlight # EmptyBag) => isLoading
    /\ (geminiInFlight # EmptyBag) => isRefining

\* C20: isRecording is true exactly when the current recorder (the one
\* mediaRecorderRef holds) exists and is recording, also after the platform
\* has stopped a recorder and after starts have overlapped.
C20_IsRecordingMatchesRecorder ==
    isRecording <=> (mediaRecorderRef # 0 /\ recorders[mediaRecorderRef].state = "recording")

\* C21: nothing wedges the page: when every pending promise settles, every
\* stopped recorder fires its events and the user clicks an enabled Stop
\* button, the page always comes again to a state in which no busy flag is
\* set and Start Recording is available (not recording, not loading, not
\* refining).
C21_StartAvailable == ~isRecording /\ ~isLoading /\ ~isRefining

C21_NeverWedged == []<>C21_StartAvailable
====
